---------------------------- MODULE Spec2Model ----------------------------
(***************************************************************************)
(* A model of stop ("space top"), src/src/stop/main.py: the one-shot       *)
(* reporter that queries yabai for spaces and windows, optionally tmux for *)
(* sessions, and prints a table of spaces grouped by display.              *)
(*                                                                         *)
(* Python strings are sequences of one-character strings, so that len(),   *)
(* slicing, strip(), "%" formatting, join() and sorted() are computed as   *)
(* Python computes them.  JSON records are functions whose domain is the   *)
(* set of keys that are present: dict.get(k, d) is Get, and d[k] on a      *)
(* missing key is a KeyError.                                              *)
(***************************************************************************)
EXTENDS Integers, Sequences, FiniteSets, TLC

VARIABLES
  COLOR,             \* _COLOR, fixed when the module is loaded
  pc,                \* the position of cli()
  raw_spaces,        \* cli: raw_spaces, [none, list]: None or a list of records
  raw_windows,       \* cli: raw_windows (after "or []")
  windows_by_space,  \* cli: windows_by_space
  by_display,        \* cli: by_display
  todo_displays,     \* cli: what is left of "for display_idx in sorted(by_display)"
  todo_spaces,       \* cli: what is left of "for space in spaces"
  rendered,          \* the spaces whose line has been printed, in order, with
                     \* the wins and win_text of the iteration
  free_indices,      \* cli: free_indices
  terminal_indices,  \* cli: terminal_indices
  summary_parts,     \* cli: summary_parts
  out,               \* the lines printed so far: [site, text]
  queries,           \* the providers queried so far, in order
  exit_status,       \* -1 while running, then the process's exit status
  raised,            \* "none", "SystemExit" or "KeyError"
  fmt_pc,            \* format_windows_for_space called alone: its position
  fmt_windows,       \* its argument
  fmt_parts,         \* its local "parts" at the return
  fmt_text           \* its result

vars == <<COLOR, pc, raw_spaces, raw_windows, windows_by_space, by_display,
          todo_displays, todo_spaces, rendered, free_indices,
          terminal_indices, summary_parts, out, queries, exit_status, raised,
          fmt_pc, fmt_windows, fmt_parts, fmt_text>>

cli_vars == <<pc, raw_spaces, raw_windows, windows_by_space, by_display,
              todo_displays, todo_spaces, rendered, free_indices,
              terminal_indices, summary_parts, out, queries, exit_status,
              raised>>

fmt_vars == <<fmt_pc, fmt_windows, fmt_parts, fmt_text>>

---------------------------------------------------------------------------
(* Bounds of the model. *)

MaxSpaces == 2
MaxWindows == 2
MaxSessions == 1
MaxFmtWindows == 4

---------------------------------------------------------------------------
(* Python strings and built-ins. *)

\* The printable ASCII characters in code-point order, from 32 (space);
\* "GRAVE" stands for the grave accent, 96.
Ascii == <<" ", "!", "\"", "#", "$", "%", "&", "'", "(", ")", "*", "+", ",",
           "-", ".", "/", "0", "1", "2", "3", "4", "5", "6", "7", "8", "9",
           ":", ";", "<", "=", ">", "?", "@", "A", "B", "C", "D", "E", "F",
           "G", "H", "I", "J", "K", "L", "M", "N", "O", "P", "Q", "R", "S",
           "T", "U", "V", "W", "X", "Y", "Z", "[", "\\", "]", "^", "_", "GRAVE",
           "a", "b", "c", "d", "e", "f", "g", "h", "i", "j", "k", "l", "m",
           "n", "o", "p", "q", "r", "s", "t", "u", "v", "w", "x", "y", "z",
           "{", "|", "}", "~">>

\* ord(c) of a printable ASCII character.
Ord(c) == 31 + (CHOOSE i \in 1..Len(Ascii) : Ascii[i] = c)

\* a < b for two Python strings: lexicographic by code point.
RECURSIVE StrLess(_, _)
StrLess(a, b) ==
  IF b = <<>> THEN FALSE
  ELSE IF a = <<>> THEN TRUE
  ELSE IF Head(a) = Head(b) THEN StrLess(Tail(a), Tail(b))
  ELSE Ord(Head(a)) < Ord(Head(b))

\* c.lower() of a character: "A".."Z" are 65..90, "a" is 97.
LowerChar(c) ==
  IF c \in {Ascii[i] : i \in 34..59} THEN Ascii[Ord(c) + 1] ELSE c

\* s.lower()
Lower(s) == [i \in 1..Len(s) |-> LowerChar(s[i])]

\* seq[::-1]
Reverse(seq) == [i \in 1..Len(seq) |-> seq[Len(seq) + 1 - i]]

\* The characters str.strip() removes.
Whitespace == {" ", "\t", "\n", "\r", "\f"}

RECURSIVE LStrip(_)
LStrip(s) ==
  IF s # <<>> /\ Head(s) \in Whitespace THEN LStrip(Tail(s)) ELSE s

RECURSIVE RStrip(_)
RStrip(s) ==
  IF s # <<>> /\ s[Len(s)] \in Whitespace
  THEN RStrip(SubSeq(s, 1, Len(s) - 1)) ELSE s

\* s.strip()
Strip(s) == RStrip(LStrip(s))

\* s[:n]
Prefix(s, n) == SubSeq(s, 1, IF n < Len(s) THEN n ELSE Len(s))

Digit(n) == Ascii[17 + n]

\* "%d" % n
RECURSIVE Str(_)
Str(n) ==
  IF n < 0 THEN <<"-">> \o Str(0 - n)
  ELSE IF n < 10 THEN <<Digit(n)>>
  ELSE Str(n \div 10) \o <<Digit(n % 10)>>

\* "%2d" % n: right-justified in a field of two.
Str2(n) == IF Len(Str(n)) < 2 THEN <<" ">> \o Str(n) ELSE Str(n)

\* sep.join(parts)
RECURSIVE Join(_, _)
Join(sep, parts) ==
  IF parts = <<>> THEN <<>>
  ELSE IF Len(parts) = 1 THEN parts[1]
  ELSE parts[1] \o sep \o Join(sep, Tail(parts))

\* dict.get(key, default)
Get(d, key, default) == IF key \in DOMAIN d THEN d[key] ELSE default

\* sorted(s) for a set of integers.
RECURSIVE SortedInts(_)
SortedInts(s) ==
  IF s = {} THEN <<>>
  ELSE LET m == CHOOSE x \in s : \A y \in s : x <= y
       IN <<m>> \o SortedInts(s \ {m})

\* sorted(s) for a set of strings.
RECURSIVE SortedStrs(_)
SortedStrs(s) ==
  IF s = {} THEN <<>>
  ELSE LET m == CHOOSE x \in s : \A y \in s : x = y \/ StrLess(x, y)
       IN <<m>> \o SortedStrs(s \ {m})

\* The sequences over S of length at most n.
SeqsUpTo(S, n) == UNION {[1..k -> S] : k \in 0..n}

---------------------------------------------------------------------------
(* String constants of the program. *)

kitty == <<"k", "i", "t", "t", "y">>
iTerm2 == <<"i", "T", "e", "r", "m", "2">>
Terminal == <<"T", "e", "r", "m", "i", "n", "a", "l">>
Alacritty == <<"A", "l", "a", "c", "r", "i", "t", "t", "y">>
WezTerm == <<"W", "e", "z", "T", "e", "r", "m">>
Hyper == <<"H", "y", "p", "e", "r">>
Rio == <<"R", "i", "o">>
Tabby == <<"T", "a", "b", "b", "y">>

TERMINAL_APPS ==
  {kitty, iTerm2, Terminal, Alacritty, WezTerm, Hyper, Rio, Tabby}

\* The text of the placeholder of an empty space, before dim().
Dashes == <<"-", "-">>

\* The separator of the entries of a window summary and of the summary line.
TwoSpaces == <<" ", " ">>

Ellipsis == <<".", ".", ".">>

\* len(title) > 50
TitleMax == 50

\* title[:47]
TitleKeep == 47

ErrorLine ==
  <<"e", "r", "r", "o", "r", ":", " ", "c", "o", "u", "l", "d", "n", "'",
    "t", " ", "q", "u", "e", "r", "y", " ", "y", "a", "b", "a", "i", " ",
    "(", "i", "s", " ", "i", "t", " ", "r", "u", "n", "n", "i", "n", "g",
    "?", ")">>

---------------------------------------------------------------------------
(* ansi helpers *)

\* The character "\033" (escape), one character of a Python string.
ESC == "ESC"

ansi(code, text) ==
  IF COLOR THEN <<ESC, "[">> \o code \o <<"m">> \o text \o <<ESC, "[", "0", "m">>
  ELSE text

dim(text) == ansi(<<"2">>, text)
green(text) == ansi(<<"3", "2">>, text)
cyan(text) == ansi(<<"3", "6">>, text)
yellow(text) == ansi(<<"3", "3">>, text)

---------------------------------------------------------------------------
(* formatting: format_windows_for_space *)

\* A variant of IsTerminal that ignores case.
IsTerminalAnyCase(w) ==
  Lower(w["app"]) \in {Lower(a) : a \in TERMINAL_APPS}

\* w["app"] in TERMINAL_APPS
IsTerminal(w) == w["app"] \in TERMINAL_APPS

\* w["app"] of a record with no "app" key: the comprehensions of lines 168
\* and 169 (and the any() of line 273) raise KeyError.
RaisesKeyError(windows) ==
  \E i \in 1..Len(windows) : "app" \notin DOMAIN windows[i]

\* A variant of Truncate that also cuts a title of exactly 50 characters.
TruncateFrom50(title) ==
  IF Len(title) >= TitleMax THEN Prefix(title, TitleKeep) \o Ellipsis
  ELSE title

\* if len(title) > 50: title = title[:47] + "..."
Truncate(title) ==
  IF Len(title) > TitleMax THEN Prefix(title, TitleKeep) \o Ellipsis
  ELSE title

\* One iteration of "for w in terminals": the entry appended to parts.
TerminalPart(w) ==
  LET title == Strip(Get(w, "title", <<>>))
  IN IF title # <<>>
     THEN green(w["app"] \o <<":", " ">> \o Truncate(title))
     ELSE green(w["app"])

\* app_counts after "for w in others".
AppCounts(others) ==
  [app \in {others[i]["app"] : i \in 1..Len(others)} |->
     Cardinality({i \in 1..Len(others) : others[i]["app"] = app})]

\* One iteration of "for app in sorted(app_counts)": the entry appended.
OtherPart(app, count) ==
  IF count > 1 THEN app \o <<" ", "(">> \o Str(count) \o <<")">>
  ELSE app

\* A variant of SortedApps in descending order.
SortedAppsDescending(app_counts) == Reverse(SortedStrs(DOMAIN app_counts))

\* sorted(app_counts)
SortedApps(app_counts) == SortedStrs(DOMAIN app_counts)

\* parts at line 198, for a non-empty list of windows that all have "app".
FormatParts(windows) ==
  LET terminals == SelectSeq(windows, IsTerminal)
      others == SelectSeq(windows, LAMBDA w : ~IsTerminal(w))
      app_counts == AppCounts(others)
      apps == SortedApps(app_counts)
  IN [i \in 1..Len(terminals) |-> TerminalPart(terminals[i])]
     \o [j \in 1..Len(apps) |-> OtherPart(apps[j], app_counts[apps[j]])]

\* The value format_windows_for_space returns (when it raises nothing).
format_windows_for_space(windows) ==
  IF windows = <<>> THEN dim(Dashes)
  ELSE LET parts == FormatParts(windows)
       IN IF parts # <<>> THEN Join(TwoSpaces, parts) ELSE dim(Dashes)

---------------------------------------------------------------------------
(* Inputs: the JSON records the providers return. *)

Safari == <<"S", "a", "f", "a", "r", "i">>
calibre == <<"c", "a", "l", "i", "b", "r", "e">>
\* "Kitty" is no member of TERMINAL_APPS: the match is case-sensitive.
Kitty == <<"K", "i", "t", "t", "y">>
work == <<"w", "o", "r", "k">>

\* A title of n characters: the digits 1, 2, ..., 9, 0, 1, ...
LongTitle(n) == [i \in 1..n |-> Digit(i % 10)]

\* The titles of the terminal windows format_windows_for_space is given:
\* empty, blank, short, of 50 and of 51 characters, of 51 characters of
\* which the last is a space, and of 52 of which the first is a space.
FmtTitles ==
  {<<>>, <<" ", " ">>, work, LongTitle(TitleMax), LongTitle(TitleMax + 1),
   LongTitle(TitleMax) \o <<" ">>, <<" ">> \o LongTitle(TitleMax + 1)}

\* The windows format_windows_for_space is given: already filtered by
\* cli(), so only "app" and "title" are read.
FmtWindowRecords ==
  {("app" :> kitty) @@ ("title" :> t) : t \in FmtTitles}
  \cup {"app" :> kitty,
        ("app" :> Safari) @@ ("title" :> work),
        "app" :> calibre,
        "title" :> work}

\* The label of a space, and a tmux session summary.
main == <<"m", "a", "i", "n">>
dev3w == <<"d", "e", "v", ":", "3", "w">>

\* The space records "yabai -m query --spaces" returns here.  Index 1 is on
\* display 2 and index 2 on display 1; one record has no "display", one no
\* "index", and one every field.
SpaceRecords ==
  {("index" :> 1) @@ ("display" :> 2) @@ ("has-focus" :> TRUE)
     @@ ("is-visible" :> TRUE) @@ ("label" :> main),
   ("index" :> 2) @@ ("display" :> 1),
   ("index" :> 3) @@ ("has-focus" :> FALSE) @@ ("is-visible" :> TRUE)
     @@ ("label" :> <<>>),
   "display" :> 2}

\* The window records "yabai -m query --windows" returns here: windows on
\* spaces 1 and 2 of a terminal, of "Kitty", of an application named "--"
\* and of a record with no "app"; a hidden, a minimized, an unassigned
\* (space 0) window and one with no "space".
WindowRecords ==
  {("app" :> kitty) @@ ("title" :> work) @@ ("space" :> 1)
     @@ ("is-hidden" :> FALSE) @@ ("is-minimized" :> FALSE),
   ("app" :> iTerm2) @@ ("space" :> 2),
   ("app" :> Kitty) @@ ("space" :> 1),
   ("app" :> Dashes) @@ ("space" :> 2),
   ("title" :> work) @@ ("space" :> 1),
   ("app" :> kitty) @@ ("space" :> 1) @@ ("is-hidden" :> TRUE),
   ("app" :> Safari) @@ ("space" :> 2) @@ ("is-minimized" :> TRUE),
   ("app" :> kitty) @@ ("space" :> 0),
   ("app" :> kitty) @@ ("title" :> work)}

\* What query_yabai returns: None, or the parsed list.
NoneReply == [none |-> TRUE, list |-> <<>>]
ListReply(l) == [none |-> FALSE, list |-> l]

SpaceReplies ==
  {NoneReply} \cup {ListReply(l) : l \in SeqsUpTo(SpaceRecords, MaxSpaces)}

WindowReplies ==
  {NoneReply} \cup {ListReply(l) : l \in SeqsUpTo(WindowRecords, MaxWindows)}

\* What get_tmux_sessions returns: a list of session summaries, empty when
\* tmux is not running.
TmuxReplies == SeqsUpTo({dev3w}, MaxSessions)

---------------------------------------------------------------------------
(* format_windows_for_space called on its own. *)

\* cli() is not running.
CliIdle ==
  /\ pc = "idle"
  /\ raw_spaces = NoneReply
  /\ raw_windows = <<>>
  /\ windows_by_space = <<>>
  /\ by_display = <<>>
  /\ todo_displays = <<>>
  /\ todo_spaces = <<>>
  /\ rendered = <<>>
  /\ free_indices = <<>>
  /\ terminal_indices = <<>>
  /\ summary_parts = <<>>
  /\ out = <<>>
  /\ queries = <<>>
  /\ exit_status = -1
  /\ raised = "none"

InitFmt ==
  /\ COLOR \in BOOLEAN
  /\ CliIdle
  /\ fmt_pc = "call"
  /\ fmt_windows \in SeqsUpTo(FmtWindowRecords, MaxFmtWindows)
  /\ fmt_parts = <<>>
  /\ fmt_text = <<>>

\* Lines 165-198, returning.
FmtReturn ==
  /\ fmt_pc = "call"
  /\ ~RaisesKeyError(fmt_windows)
  /\ fmt_pc' = "return"
  /\ fmt_parts' = IF fmt_windows = <<>> THEN <<>> ELSE FormatParts(fmt_windows)
  /\ fmt_text' = format_windows_for_space(fmt_windows)
  /\ UNCHANGED <<COLOR, fmt_windows>>
  /\ UNCHANGED cli_vars

\* Lines 168-169 on a window with no "app" key.
FmtRaise ==
  /\ fmt_pc = "call"
  /\ RaisesKeyError(fmt_windows)
  /\ fmt_pc' = "KeyError"
  /\ UNCHANGED <<COLOR, fmt_windows, fmt_parts, fmt_text>>
  /\ UNCHANGED cli_vars

NextFmt == FmtReturn \/ FmtRaise

SpecFmt == InitFmt /\ [][NextFmt]_vars

---------------------------------------------------------------------------
(* main: cli() *)

\* A variant of Skipped without the test of "is-minimized".
SkippedUnlessMinimized(w) ==
  \/ Get(w, "space", 0) <= 0
  \/ Get(w, "is-hidden", FALSE)

\* The three "continue" tests of the loop over raw_windows.
Skipped(w) ==
  \/ Get(w, "space", 0) <= 0
  \/ Get(w, "is-hidden", FALSE)
  \/ Get(w, "is-minimized", FALSE)

\* windows_by_space after "for w in raw_windows", started from acc.
RECURSIVE IndexWindows(_, _)
IndexWindows(windows, acc) ==
  IF windows = <<>> THEN acc
  ELSE LET w == Head(windows)
           space_index == Get(w, "space", 0)
       IN IndexWindows(Tail(windows),
            IF Skipped(w) THEN acc
            ELSE IF space_index \in DOMAIN acc
                 THEN [acc EXCEPT ![space_index] = Append(@, w)]
                 ELSE acc @@ (space_index :> <<w>>))

\* by_display after "for s in raw_spaces", started from acc.
RECURSIVE GroupByDisplay(_, _)
GroupByDisplay(spaces, acc) ==
  IF spaces = <<>> THEN acc
  ELSE LET s == Head(spaces)
           display == Get(s, "display", 1)
       IN GroupByDisplay(Tail(spaces),
            IF display \in DOMAIN acc
            THEN [acc EXCEPT ![display] = Append(@, s)]
            ELSE acc @@ (display :> <<s>>))

\* A variant of DisplayOrder in descending order.
DisplayOrderDescending(displays) == Reverse(SortedInts(DOMAIN displays))

\* sorted(by_display)
DisplayOrder(displays) == SortedInts(DOMAIN displays)

\* sorted(spaces, key=lambda s: s.get("index", 0)): stable.
RECURSIVE SortedByIndex(_)
SortedByIndex(spaces) ==
  IF spaces = <<>> THEN <<>>
  ELSE LET n == Len(spaces)
           s == spaces[n]
           before == SortedByIndex(SubSeq(spaces, 1, n - 1))
           k == Cardinality({i \in 1..(n - 1) :
                  Get(before[i], "index", 0) <= Get(s, "index", 0)})
       IN SubSeq(before, 1, k) \o <<s>> \o SubSeq(before, k + 1, n - 1)

\* The header line of a display.
HeaderText(display_idx, spaces) ==
  cyan(<<"d", "i", "s", "p", "l", "a", "y", " ">> \o Str(display_idx))
  \o dim(<<" ", "(">> \o Str(Len(spaces))
         \o <<" ", "s", "p", "a", "c", "e", "s", ")">>)

\* The character "·" (middle dot), one character of a Python string.
MIDDOT == "MIDDOT"

\* indicator
Indicator(space) ==
  LET focused == Get(space, "has-focus", FALSE)
      visible == Get(space, "is-visible", FALSE)
  IN IF ~focused /\ visible THEN MIDDOT
     ELSE IF focused THEN "*" ELSE " "

\* label_text
LabelText(space) ==
  LET label == Get(space, "label", <<>>)
  IN IF label # <<>> THEN dim(<<"[">> \o label \o <<"]", " ">>) ELSE <<>>

\* The line of a space.
SpaceText(space, win_text) ==
  <<" ", " ">> \o Str2(Get(space, "index", 0)) \o <<" ", Indicator(space)>>
  \o <<" ", " ">> \o LabelText(space) \o win_text

\* A variant of IsFree that looks for terminal windows only.
IsFreeOfTerminals(wins) ==
  ~\E i \in 1..Len(wins) : wins[i]["app"] \in TERMINAL_APPS

\* if not wins
IsFree(wins) == wins = <<>>

\* any(w["app"] in TERMINAL_APPS for w in wins)
HasTerminal(wins) == \E i \in 1..Len(wins) : IsTerminal(wins[i])

\* ", ".join(str(i) for i in indices)
IndexList(indices) ==
  Join(<<",", " ">>, [i \in 1..Len(indices) |-> Str(indices[i])])

\* summary_parts at line 301.
SummaryParts(free, terminal) ==
  <<IF free # <<>>
    THEN green(Str(Len(free)) \o <<" ", "f", "r", "e", "e">>)
         \o dim(<<" ", "(">> \o IndexList(free) \o <<")">>)
    ELSE yellow(<<"0", " ", "f", "r", "e", "e">>)>>
  \o IF terminal # <<>>
     THEN <<Str(Len(terminal))
            \o <<" ", "w", "i", "t", "h", " ", "t", "e", "r", "m", "i",
                 "n", "a", "l", "s">>
            \o dim(<<" ", "(">> \o IndexList(terminal) \o <<")">>)>>
     ELSE <<>>

\* The tmux line.
TmuxText(tmux) ==
  dim(<<"t", "m", "u", "x", ":", " ">> \o Join(TwoSpaces, tmux))

\* print(text), from the call at site.
Printed(site, text) == Append(out, [site |-> site, text |-> text])

Init ==
  /\ COLOR \in BOOLEAN
  /\ pc = "start"
  /\ raw_spaces = NoneReply
  /\ raw_windows = <<>>
  /\ windows_by_space = <<>>
  /\ by_display = <<>>
  /\ todo_displays = <<>>
  /\ todo_spaces = <<>>
  /\ rendered = <<>>
  /\ free_indices = <<>>
  /\ terminal_indices = <<>>
  /\ summary_parts = <<>>
  /\ out = <<>>
  /\ queries = <<>>
  /\ exit_status = -1
  /\ raised = "none"
  /\ fmt_pc = "idle"
  /\ fmt_windows = <<>>
  /\ fmt_parts = <<>>
  /\ fmt_text = <<>>

\* Line 206: raw_spaces = query_yabai("spaces")
QuerySpaces ==
  /\ pc = "start"
  /\ \E reply \in SpaceReplies :
       /\ raw_spaces' = reply
       /\ queries' = Append(queries, [provider |-> "spaces", none |-> reply.none])
  /\ pc' = "spaces_queried"
  /\ UNCHANGED <<COLOR, raw_windows, windows_by_space, by_display,
                 todo_displays, todo_spaces, rendered, free_indices,
                 terminal_indices, summary_parts, out, exit_status, raised>>
  /\ UNCHANGED fmt_vars

\* A variant of SpacesUnavailable that prints the message and goes on.
SpacesUnavailableGoesOn ==
  /\ pc = "spaces_queried"
  /\ raw_spaces.none
  /\ out' = Printed("error", ErrorLine)
  /\ pc' = "windows_queried"
  /\ UNCHANGED <<COLOR, raw_spaces, raw_windows, windows_by_space,
                 by_display, todo_displays, todo_spaces, rendered,
                 free_indices, terminal_indices, summary_parts, queries,
                 exit_status, raised>>
  /\ UNCHANGED fmt_vars

\* Lines 207-209: the space query is unavailable.
SpacesUnavailable ==
  /\ pc = "spaces_queried"
  /\ raw_spaces.none
  /\ out' = Printed("error", ErrorLine)
  /\ raised' = "SystemExit"
  /\ exit_status' = 1
  /\ pc' = "exited"
  /\ UNCHANGED <<COLOR, raw_spaces, raw_windows, windows_by_space,
                 by_display, todo_displays, todo_spaces, rendered,
                 free_indices, terminal_indices, summary_parts, queries>>
  /\ UNCHANGED fmt_vars

\* A variant of QueryWindows to which an unavailable window query is fatal.
QueryWindowsFatal ==
  /\ pc = "spaces_queried"
  /\ ~raw_spaces.none
  /\ \E reply \in WindowReplies :
       /\ raw_windows' = reply.list
       /\ queries' = Append(queries, [provider |-> "windows", none |-> reply.none])
       /\ pc' = (IF reply.none THEN "exited" ELSE "windows_queried")
       /\ exit_status' = (IF reply.none THEN 1 ELSE exit_status)
       /\ raised' = (IF reply.none THEN "SystemExit" ELSE raised)
  /\ UNCHANGED <<COLOR, raw_spaces, windows_by_space, by_display,
                 todo_displays, todo_spaces, rendered, free_indices,
                 terminal_indices, summary_parts, out>>
  /\ UNCHANGED fmt_vars

\* A variant of QueryWindows that queries the sessions right after the
\* windows, before anything is rendered.
QueryWindowsThenSessions ==
  /\ pc = "spaces_queried"
  /\ ~raw_spaces.none
  /\ \E reply \in WindowReplies, tmux \in TmuxReplies :
       /\ raw_windows' = (IF reply.none THEN <<>> ELSE reply.list)
       /\ queries' = queries
            \o <<[provider |-> "windows", none |-> reply.none],
                 [provider |-> "sessions", none |-> tmux = <<>>]>>
  /\ pc' = "windows_queried"
  /\ UNCHANGED <<COLOR, raw_spaces, windows_by_space, by_display,
                 todo_displays, todo_spaces, rendered, free_indices,
                 terminal_indices, summary_parts, out, exit_status, raised>>
  /\ UNCHANGED fmt_vars

\* Line 211: raw_windows = query_yabai("windows") or []
QueryWindows ==
  /\ pc = "spaces_queried"
  /\ ~raw_spaces.none
  /\ \E reply \in WindowReplies :
       /\ raw_windows' = (IF reply.none THEN <<>> ELSE reply.list)
       /\ queries' = Append(queries, [provider |-> "windows", none |-> reply.none])
  /\ pc' = "windows_queried"
  /\ UNCHANGED <<COLOR, raw_spaces, windows_by_space, by_display,
                 todo_displays, todo_spaces, rendered, free_indices,
                 terminal_indices, summary_parts, out, exit_status, raised>>
  /\ UNCHANGED fmt_vars

\* Lines 216-238: index the windows by space, group the spaces by display,
\* and start the two index lists.
Aggregate ==
  /\ pc = "windows_queried"
  /\ windows_by_space' = IndexWindows(raw_windows, <<>>)
  /\ by_display' = GroupByDisplay(raw_spaces.list, <<>>)
  /\ todo_displays' = DisplayOrder(by_display')
  /\ free_indices' = <<>>
  /\ terminal_indices' = <<>>
  /\ pc' = "next_display"
  /\ UNCHANGED <<COLOR, raw_spaces, raw_windows, todo_spaces, rendered,
                 summary_parts, out, queries, exit_status, raised>>
  /\ UNCHANGED fmt_vars

\* Lines 240-245: the next display, its spaces sorted, its header printed.
BeginDisplay ==
  /\ pc = "next_display"
  /\ todo_displays # <<>>
  /\ LET display_idx == Head(todo_displays)
         spaces == SortedByIndex(by_display[display_idx])
     IN /\ out' = Printed("header", HeaderText(display_idx, spaces))
        /\ todo_spaces' = spaces
  /\ todo_displays' = Tail(todo_displays)
  /\ pc' = "next_space"
  /\ UNCHANGED <<COLOR, raw_spaces, raw_windows, windows_by_space,
                 by_display, rendered, free_indices, terminal_indices,
                 summary_parts, queries, exit_status, raised>>
  /\ UNCHANGED fmt_vars

\* Lines 247-279: one space; returns normally from format_windows_for_space.
RenderSpace ==
  /\ pc = "next_space"
  /\ todo_spaces # <<>>
  /\ LET space == Head(todo_spaces)
         idx == Get(space, "index", 0)
         wins == Get(windows_by_space, idx, <<>>)
         win_text == format_windows_for_space(wins)
     IN /\ ~RaisesKeyError(wins)
        /\ free_indices' =
             (IF IsFree(wins) THEN Append(free_indices, idx) ELSE free_indices)
        /\ terminal_indices' =
             (IF HasTerminal(wins) THEN Append(terminal_indices, idx)
              ELSE terminal_indices)
        /\ out' = Printed("space", SpaceText(space, win_text))
        /\ rendered' = Append(rendered,
             [space |-> space, idx |-> idx, wins |-> wins, win_text |-> win_text])
  /\ todo_spaces' = Tail(todo_spaces)
  /\ UNCHANGED <<COLOR, pc, raw_spaces, raw_windows, windows_by_space,
                 by_display, todo_displays, summary_parts, queries,
                 exit_status, raised>>
  /\ UNCHANGED fmt_vars

\* Lines 263-264 and 168: one of the space's windows has no "app", and the
\* KeyError of format_windows_for_space ends the process with a traceback.
RenderSpaceRaises ==
  /\ pc = "next_space"
  /\ todo_spaces # <<>>
  /\ LET idx == Get(Head(todo_spaces), "index", 0)
     IN RaisesKeyError(Get(windows_by_space, idx, <<>>))
  /\ raised' = "KeyError"
  /\ exit_status' = 1
  /\ pc' = "exited"
  /\ UNCHANGED <<COLOR, raw_spaces, raw_windows, windows_by_space,
                 by_display, todo_displays, todo_spaces, rendered,
                 free_indices, terminal_indices, summary_parts, out, queries>>
  /\ UNCHANGED fmt_vars

\* Line 281: the blank line that ends a display.
EndDisplay ==
  /\ pc = "next_space"
  /\ todo_spaces = <<>>
  /\ out' = Printed("blank", <<>>)
  /\ pc' = "next_display"
  /\ UNCHANGED <<COLOR, raw_spaces, raw_windows, windows_by_space,
                 by_display, todo_displays, todo_spaces, rendered,
                 free_indices, terminal_indices, summary_parts, queries,
                 exit_status, raised>>
  /\ UNCHANGED fmt_vars

\* Lines 283-301: the summary line.
PrintSummary ==
  /\ pc = "next_display"
  /\ todo_displays = <<>>
  /\ summary_parts' = SummaryParts(free_indices, terminal_indices)
  /\ out' = Printed("summary", Join(TwoSpaces, summary_parts'))
  /\ pc' = "summarised"
  /\ UNCHANGED <<COLOR, raw_spaces, raw_windows, windows_by_space,
                 by_display, todo_displays, todo_spaces, rendered,
                 free_indices, terminal_indices, queries, exit_status, raised>>
  /\ UNCHANGED fmt_vars

\* Lines 304-306: the tmux sessions, their line if there are any, and the
\* return of cli().
QueryTmux ==
  /\ pc = "summarised"
  /\ \E tmux \in TmuxReplies :
       /\ queries' = Append(queries, [provider |-> "sessions", none |-> tmux = <<>>])
       /\ out' = (IF tmux # <<>> THEN Printed("tmux", TmuxText(tmux)) ELSE out)
  /\ exit_status' = 0
  /\ pc' = "exited"
  /\ UNCHANGED <<COLOR, raw_spaces, raw_windows, windows_by_space,
                 by_display, todo_displays, todo_spaces, rendered,
                 free_indices, terminal_indices, summary_parts, raised>>
  /\ UNCHANGED fmt_vars

Next ==
  \/ QuerySpaces
  \/ SpacesUnavailable
  \/ QueryWindows
  \/ Aggregate
  \/ BeginDisplay
  \/ RenderSpace
  \/ RenderSpaceRaises
  \/ EndDisplay
  \/ PrintSummary
  \/ QueryTmux

Spec == Init /\ [][Next]_vars

---------------------------------------------------------------------------
(* Reading a rendered window summary back. *)

\* A green() entry without its escape sequences.
StripGreen(part) ==
  IF COLOR THEN SubSeq(part, 6, Len(part) - 4) ELSE part

\* The title an entry of a terminal window of application app shows: what
\* follows "app: ", or nothing when the entry is the application alone.
ShownTitle(part, app) ==
  LET e == StripGreen(part)
  IN IF Len(e) <= Len(app) THEN <<>> ELSE SubSeq(e, Len(app) + 3, Len(e))

\* a before b in the order of a dictionary, which ignores case.
AlphabeticalBefore(a, b) ==
  Lower(a) = Lower(b) \/ StrLess(Lower(a), Lower(b))

\* a before b by code point: every upper-case letter before every
\* lower-case one.
CodePointBefore(a, b) == a = b \/ StrLess(a, b)

\* The length of the first k parts joined by a separator of two.
RECURSIVE JoinedLen(_, _)
JoinedLen(parts, k) ==
  IF k = 0 THEN 0
  ELSE JoinedLen(parts, k - 1) + Len(parts[k]) + (IF k > 1 THEN 2 ELSE 0)

\* text is parts, in order, with exactly two spaces between neighbours.
JoinedByTwoSpaces(text, parts) ==
  /\ Len(text) = JoinedLen(parts, Len(parts))
  /\ \A k \in 1..Len(parts) :
       LET last == JoinedLen(parts, k)
           first == last - Len(parts[k]) + 1
       IN /\ SubSeq(text, first, last) = parts[k]
          /\ k > 1 => text[first - 1] = " " /\ text[first - 2] = " "

\* What a non-terminal application with n windows is shown as.
GroupEntry(app, n) ==
  IF n = 1 THEN app ELSE app \o <<" ", "(">> \o Str(n) \o <<")">>

\* The window summary of fmt_windows: one entry per terminal window in
\* source order, then one entry per distinct non-terminal application in
\* the order Before, the entries joined by two spaces.
SummaryShape(Before(_, _)) ==
  LET ws == fmt_windows
      terms == SelectSeq(ws, IsTerminal)
      nt == Len(terms)
      apps == {ws[i]["app"] : i \in {k \in 1..Len(ws) : ~IsTerminal(ws[k])}}
      count(a) == Cardinality({i \in 1..Len(ws) : ws[i]["app"] = a})
      appAt(j) == CHOOSE a \in apps : fmt_parts[nt + j] = GroupEntry(a, count(a))
  IN /\ Len(fmt_parts) = nt + Cardinality(apps)
     /\ \A i \in 1..nt :
          LET e == StripGreen(fmt_parts[i])
              app == terms[i]["app"]
              title == Strip(Get(terms[i], "title", <<>>))
          IN /\ Prefix(e, Len(app)) = app
             /\ title = <<>> => e = app
             /\ title # <<>> =>
                  /\ SubSeq(e, Len(app) + 1, Len(app) + 2) = <<":", " ">>
                  /\ Prefix(ShownTitle(fmt_parts[i], app), TitleKeep)
                       = Prefix(title, TitleKeep)
     /\ \A j \in 1..Cardinality(apps) :
          \E a \in apps : fmt_parts[nt + j] = GroupEntry(a, count(a))
     /\ \A j, k \in 1..Cardinality(apps) :
          j < k => appAt(j) # appAt(k) /\ Before(appAt(j), appAt(k))
     /\ JoinedByTwoSpaces(fmt_text, fmt_parts)

---------------------------------------------------------------------------
(* Claims about format_windows_for_space. *)

\* C8, as stated: for a non-empty window list the summary is one entry per
\* terminal window, in source order and never merged, then one entry per
\* distinct non-terminal application in ascending alphabetical order,
\* "app (n)" with the exact count when n > 1 and "app" when n = 1, the
\* entries joined by two spaces.
C8_AsStated ==
  fmt_pc = "return" /\ fmt_windows # <<>> => SummaryShape(AlphabeticalBefore)

\* C8, amended: the same, with the non-terminal applications in ascending
\* order of their names compared by code point (what sorted() gives), in
\* which "Safari" comes before "calibre".
C8_Amended ==
  fmt_pc = "return" /\ fmt_windows # <<>> => SummaryShape(CodePointBefore)

\* Two terminal windows of the same application and title, and two windows
\* of one non-terminal application, have been summarised in three entries.
C8_Witness ==
  /\ fmt_pc = "return"
  /\ \E i, j \in 1..Len(fmt_windows) :
       i < j /\ fmt_windows[i] = fmt_windows[j] /\ IsTerminal(fmt_windows[i])
  /\ \E i, j \in 1..Len(fmt_windows) :
       i < j /\ fmt_windows[i] = fmt_windows[j] /\ ~IsTerminal(fmt_windows[i])
  /\ Len(fmt_parts) = 3

\* The rendered titles of the terminal windows of fmt_windows, each against
\* Measured(its "title" field).
TitlesRendered(Measured(_)) ==
  LET terms == SelectSeq(fmt_windows, IsTerminal)
  IN \A i \in 1..Len(terms) :
       LET t == Measured(Get(terms[i], "title", <<>>))
           r == ShownTitle(fmt_parts[i], terms[i]["app"])
       IN /\ Len(t) = 50 => r = t
          /\ Len(t) >= 51 => r = SubSeq(t, 1, 47) \o <<".", ".", ".">> /\ Len(r) = 50
          /\ Len(r) <= 50

AsGiven(title) == title

\* C9, as stated: a terminal window's title of exactly 50 characters is
\* rendered untruncated, one of 51 or more as its first 47 characters and
\* "...", 50 characters in all; no rendered title is longer than 50.
C9_AsStated == fmt_pc = "return" => TitlesRendered(AsGiven)

\* C9, amended: the same of the title with its leading and trailing
\* whitespace removed, which is what is measured, cut and rendered.
C9_Amended == fmt_pc = "return" => TitlesRendered(Strip)

\* A terminal window whose title is longer than 50 characters, also once
\* stripped, has been rendered with a title of 50.
C9_Witness ==
  /\ fmt_pc = "return"
  /\ \E i \in 1..Len(fmt_windows) :
       /\ IsTerminal(fmt_windows[i])
       /\ Len(Strip(Get(fmt_windows[i], "title", <<>>))) > 50
       /\ \E k \in 1..Len(fmt_parts) :
            Len(ShownTitle(fmt_parts[k], fmt_windows[i]["app"])) = 50

---------------------------------------------------------------------------
(* Reading a run of cli() back. *)

Range(seq) == {seq[i] : i \in 1..Len(seq)}

\* sub occurs in text.
Contains(text, sub) ==
  \E k \in 0..(Len(text) - Len(sub)) : SubSeq(text, k + 1, k + Len(sub)) = sub

\* The window record occupies visible room on a space: it is assigned to
\* one, and is neither hidden nor minimized.
Survives(w) ==
  /\ "space" \in DOMAIN w /\ w["space"] > 0
  /\ ~("is-hidden" \in DOMAIN w /\ w["is-hidden"])
  /\ ~("is-minimized" \in DOMAIN w /\ w["is-minimized"])

\* The surviving windows of raw_windows assigned to space index idx.
SurvivorsOn(idx) ==
  SelectSeq(raw_windows, LAMBDA w : Survives(w) /\ w["space"] = idx)

\* The window's application is, letter for letter, one of the terminals.
ExactlyATerminal(w) == \E a \in TERMINAL_APPS : w["app"] = a

\* What an empty space shows.
Placeholder == dim(Dashes)

\* The providers queried so far, in order.
Providers == [i \in 1..Len(queries) |-> queries[i].provider]

\* The sites of the lines printed so far, in order.
Sites == [i \in 1..Len(out) |-> out[i].site]

ReportSites == {"header", "space", "summary"}

\* The text of the summary line, once printed.
SummaryText ==
  out[CHOOSE i \in 1..Len(out) : out[i].site = "summary"].text

\* cli() has printed the summary line.
Summarised == "summary" \in Range(Sites)

\* The spaces the space query returned, their indices and displays.
Spaces == raw_spaces.list
IndexOf(s) == IF "index" \in DOMAIN s THEN s["index"] ELSE 0
DisplayOf(s) == IF "display" \in DOMAIN s THEN s["display"] ELSE 1

\* No two spaces share an index.
UniqueIndices ==
  \A i, j \in 1..Len(Spaces) : i # j => IndexOf(Spaces[i]) # IndexOf(Spaces[j])

\* The display of the space whose index is idx.
DisplayOfIndex(idx) ==
  DisplayOf(Spaces[CHOOSE i \in 1..Len(Spaces) : IndexOf(Spaces[i]) = idx])

\* The indices of list are in the order of the rendering: by display, and
\* by index within a display.
InTraversalOrder(list) ==
  \A i, j \in 1..Len(list) :
    i < j =>
      \/ DisplayOfIndex(list[i]) < DisplayOfIndex(list[j])
      \/ /\ DisplayOfIndex(list[i]) = DisplayOfIndex(list[j])
         /\ list[i] < list[j]

\* "(a, b, c)": the indices of list as the summary line shows them.
RECURSIVE Listed(_)
Listed(list) ==
  IF list = <<>> THEN <<>>
  ELSE IF Len(list) = 1 THEN Str(list[1])
  ELSE Listed(SubSeq(list, 1, Len(list) - 1)) \o <<",", " ">>
       \o Str(list[Len(list)])

WithTerminals ==
  <<" ", "w", "i", "t", "h", " ", "t", "e", "r", "m", "i", "n", "a", "l", "s">>

---------------------------------------------------------------------------
(* Claims about cli(). *)

\* C1: a window whose space is <= 0 or absent, or that is hidden, or that
\* is minimized, is never placed in a space's window list: the window list
\* of every space is the surviving windows assigned to it, in source order,
\* and whether a space is listed as free or as holding a terminal depends
\* on the surviving windows alone.
C1_ExcludedWindowsNeverCount ==
  /\ \A k \in DOMAIN windows_by_space :
       /\ k > 0
       /\ \A i \in 1..Len(windows_by_space[k]) :
            Survives(windows_by_space[k][i]) /\ windows_by_space[k][i]["space"] = k
  /\ \A n \in 1..Len(rendered) :
       LET r == rendered[n]
       IN /\ r.wins = SurvivorsOn(r.idx)
          /\ r.idx \in Range(free_indices) <=> SurvivorsOn(r.idx) = <<>>
          /\ r.idx \in Range(terminal_indices) <=>
               \E w \in Range(SurvivorsOn(r.idx)) : ExactlyATerminal(w)

\* A run has ended well in which a hidden or minimized window was assigned
\* to a space that is listed as free.
C1_Witness ==
  /\ pc = "exited" /\ exit_status = 0
  /\ \E n \in 1..Len(rendered), i \in 1..Len(raw_windows) :
       /\ ~Survives(raw_windows[i])
       /\ Get(raw_windows[i], "space", 0) = rendered[n].idx
       /\ rendered[n].idx \in Range(free_indices)

\* C2, as stated: a rendered space shows the placeholder, and is listed as
\* free, if and only if its filtered window list is empty.
C2_AsStated ==
  \A n \in 1..Len(rendered) :
    LET r == rendered[n]
    IN /\ r.win_text = Placeholder <=> r.wins = <<>>
       /\ r.idx \in Range(free_indices) <=> r.wins = <<>>

\* C2, amended: a rendered space is listed as free if and only if its
\* filtered window list is empty, and then it shows the placeholder; a
\* space with a surviving window shows the same text as the placeholder
\* only when that is its single window, of a non-terminal application
\* whose name is the placeholder's text.
C2_Amended ==
  \A n \in 1..Len(rendered) :
    LET r == rendered[n]
    IN /\ r.idx \in Range(free_indices) <=> r.wins = <<>>
       /\ r.wins = <<>> => r.win_text = Placeholder
       /\ r.wins # <<>> /\ r.win_text = Placeholder =>
            /\ Len(r.wins) = 1
            /\ r.wins[1]["app"] = Placeholder
            /\ ~ExactlyATerminal(r.wins[1])

\* A run has ended well that rendered an empty space and an occupied one.
C2_Witness ==
  /\ pc = "exited" /\ exit_status = 0
  /\ \E n, m \in 1..Len(rendered) :
       /\ rendered[n].wins = <<>>
       /\ rendered[n].win_text = Placeholder
       /\ rendered[m].wins # <<>>
       /\ rendered[m].idx \notin Range(free_indices)

\* C3: when the space query yields None, cli() ends with a non-zero exit
\* status after printing exactly one line, the diagnostic: no header, space
\* line, summary line or session line is printed, and neither the windows
\* nor the sessions are queried.
C3_SpacesUnavailableIsFatal ==
  pc \notin {"start", "idle"} /\ raw_spaces.none =>
    /\ Providers = <<"spaces">>
    /\ pc \in {"spaces_queried", "exited"}
    /\ ~ENABLED QueryWindows
    /\ pc = "spaces_queried" => out = <<>> /\ ENABLED SpacesUnavailable
    /\ pc = "exited" =>
         /\ exit_status # 0
         /\ Sites = <<"error">>
         /\ out[1].text = ErrorLine

\* A run has ended whose space query yielded None.
C3_Witness == pc = "exited" /\ raw_spaces.none /\ Len(out) = 1

\* C4, as stated: whenever the space query succeeds, cli() runs to
\* completion whatever fields the records lack: it exits with status 0,
\* having printed a header per display and the summary line.
C4_AsStated ==
  pc = "exited" /\ ~raw_spaces.none =>
    /\ exit_status = 0
    /\ raised = "none"
    /\ Summarised
    /\ Cardinality({i \in 1..Len(out) : out[i].site = "header"})
         = Cardinality({DisplayOf(Spaces[i]) : i \in 1..Len(Spaces)})

\* C5: the free and the terminal index lists are in the order of the
\* rendering (by display, then by index within a display), and the summary
\* line shows them in that order, not sorted anew.
C5_ListsInTraversalOrder ==
  ~raw_spaces.none /\ UniqueIndices =>
    /\ InTraversalOrder(free_indices)
    /\ InTraversalOrder(terminal_indices)
    /\ Summarised /\ free_indices # <<>> =>
         Contains(SummaryText, <<"(">> \o Listed(free_indices) \o <<")">>)
    /\ Summarised /\ terminal_indices # <<>> =>
         Contains(SummaryText,
           WithTerminals \o dim(<<" ", "(">> \o Listed(terminal_indices) \o <<")">>))

\* A run over spaces of distinct indices has ended well whose free list
\* shows a larger index before a smaller one.
C5_Witness ==
  /\ pc = "exited" /\ exit_status = 0 /\ UniqueIndices
  /\ \E i, j \in 1..Len(free_indices) : i < j /\ free_indices[i] > free_indices[j]

\* C6: when the space query succeeds and the window query yields None,
\* every space shows the placeholder and is listed as free, the free list
\* has as many entries as there are spaces, the summary line has no
\* terminals clause, and the exit status is 0.
C6_WindowsUnavailableDegrades ==
  Len(queries) >= 2 /\ queries[2].none =>
    /\ raised = "none"
    /\ pc = "exited" => exit_status = 0
    /\ terminal_indices = <<>>
    /\ Len(free_indices) = Len(rendered)
    /\ \A n \in 1..Len(rendered) :
         /\ rendered[n].win_text = Placeholder
         /\ rendered[n].idx \in Range(free_indices)
    /\ Summarised =>
         /\ Len(free_indices) = Len(Spaces)
         /\ \A i \in 1..Len(Spaces) : IndexOf(Spaces[i]) \in Range(free_indices)
         /\ Len(summary_parts) = 1
         /\ ~Contains(SummaryText, WithTerminals)

\* A run with two spaces or more has ended after a window query that
\* yielded None.
C6_Witness ==
  /\ pc = "exited"
  /\ Len(queries) >= 2 /\ queries[2].none
  /\ Len(Spaces) >= 2
  /\ Len(free_indices) = Len(Spaces)

\* C7: a rendered space is in the terminal list if and only if one of its
\* windows has an application that is, letter for letter, in the terminal
\* set; a space with only other windows is in neither list; and the
\* summary line has a terminals clause exactly when the list is not empty.
C7_TerminalSpaces ==
  /\ \A n \in 1..Len(rendered) :
       LET r == rendered[n]
           holds == \E w \in Range(r.wins) : ExactlyATerminal(w)
       IN /\ r.idx \in Range(terminal_indices) <=> holds
          /\ r.wins # <<>> /\ ~holds =>
               /\ r.idx \notin Range(free_indices)
               /\ r.idx \notin Range(terminal_indices)
  /\ Len(terminal_indices) =
       Cardinality({n \in 1..Len(rendered) :
                      \E w \in Range(rendered[n].wins) : ExactlyATerminal(w)})
  /\ Summarised =>
       /\ Contains(SummaryText, WithTerminals) <=> terminal_indices # <<>>
       /\ Len(summary_parts) = 1 <=> terminal_indices = <<>>
       /\ terminal_indices # <<>> =>
            Contains(SummaryText, Str(Len(terminal_indices)) \o WithTerminals)

\* A run has ended well with a space in the terminal list and a space that
\* holds only a "Kitty" window, which is in neither list.
C7_Witness ==
  /\ pc = "exited" /\ exit_status = 0
  /\ terminal_indices # <<>>
  /\ \E n \in 1..Len(rendered) :
       /\ rendered[n].wins = <<("app" :> Kitty) @@ ("space" :> 1)>>
       /\ rendered[n].idx \notin Range(free_indices)
       /\ rendered[n].idx \notin Range(terminal_indices)

\* C10, as stated: the providers are queried at most once each, in the
\* order spaces, windows, sessions, and no line of the report is printed
\* before the sessions have been queried.
C10_AsStated ==
  /\ \E k \in 0..3 : Providers = SubSeq(<<"spaces", "windows", "sessions">>, 1, k)
  /\ Range(Sites) \cap ReportSites # {} => "sessions" \in Range(Providers)

\* C10, amended: the providers are queried at most once each, in the order
\* spaces, windows, sessions; the report is printed after the window query
\* and before the session query, which is issued only once the summary
\* line is out; only the session line is printed after it.
C10_Amended ==
  /\ \E k \in 0..3 : Providers = SubSeq(<<"spaces", "windows", "sessions">>, 1, k)
  /\ Range(Sites) \cap ReportSites # {} => "windows" \in Range(Providers)
  /\ "sessions" \in Range(Providers) => Summarised
  /\ \A i \in 1..Len(out) :
       /\ out[i].site = "tmux" => i = Len(out) /\ "sessions" \in Range(Providers)
       /\ out[i].site = "summary" =>
            \A j \in (i + 1)..Len(out) : out[j].site = "tmux"

\* A run has ended well that queried the three providers and printed a
\* header, a space line and the session line.
C10_Witness ==
  /\ pc = "exited" /\ exit_status = 0
  /\ Len(queries) = 3
  /\ {"header", "space", "summary", "tmux"} \subseteq Range(Sites)

===========================================================================
